---- MODULE Spec2Model ----
(***************************************************************************)
(* Model of the PDF query system: the two variants of query_system         *)
(* (src/main.py and src/unnamed/part_000), the graph store wrapper         *)
(* GraphDB, the SQL lookup against table_0 and the similarity fallback.     *)
(*                                                                         *)
(* A Python string is a sequence of atoms (TLA+ strings standing for its   *)
(* characters or for a constant text of the code).  A Python value is a    *)
(* record [t, s]: t = "str" with the text s, or t = "None".                *)
(***************************************************************************)
EXTENDS Integers, Sequences, FiniteSets, TLC

VARIABLES phase, tables, facts, query,
          outM, logM, outP, logP,
          similarity_scores, best_match_idx

vars == <<phase, tables, facts, query, outM, logM, outP, logP,
          similarity_scores, best_match_idx>>

(* ------------------------------ bounds --------------------------------- *)
\* total number of rows over all extracted tables
MaxRows == 2
\* number of Material nodes created at startup
MaxFacts == 1
\* number of tokens the NER pipeline reports for a query
MaxWords == 2

(* --------------------------- Python values ----------------------------- *)
PyNone == [t |-> "None", s |-> <<>>]
PyStr(s) == [t |-> "str", s |-> s]

\* str(v), also the f-string formatting of v
Str(v) == IF v.t = "None" THEN <<"None">> ELSE v.s

\* truth value of a str or None
Truthy(v) == v.t = "str" /\ v.s # <<>>

Returned(v) == [kind |-> "return", value |-> v, exc |-> ""]
Raised(e) == [kind |-> "raise", value |-> PyNone, exc |-> e]
Pending == [kind |-> "pending", value |-> PyNone, exc |-> ""]

Event(op, key) == [op |-> op, key |-> key]

(* ------------------------------ inputs --------------------------------- *)
QUOTE == "'"
Words == {<<"a">>, <<QUOTE>>}
\* what ner_pipeline reports for one token: an organisation word (kept by
\* extract_query_entities) or a person word (dropped)
Tokens == {[word |-> w, entity |-> "B-ORG"] : w \in Words}
              \cup {[word |-> <<"a">>, entity |-> "B-PER"]}
Queries == UNION {[1..n -> Tokens] : n \in 0..MaxWords}

Rows1 == {<<PyStr(<<"a">>)>>}
Rows2 == {<<c0, c1>> : c0 \in {PyStr(<<"a">>), PyStr(<<QUOTE>>)},
                       c1 \in {PyStr(<<"g">>), PyNone}}
TablesWith(n) == [1..n -> Rows1] \cup [1..n -> Rows2]

RECURSIVE DocsWith(_)
DocsWith(r) ==
    IF r = 0 THEN {<<>>}
    ELSE UNION {{<<t>> \o d : t \in TablesWith(k), d \in DocsWith(r - k)} : k \in 1..r}
Documents == UNION {DocsWith(r) : r \in 0..MaxRows}

FactNames == {<<"a">>}
Qualifications == {<<"g">>}
Scores == {0, 1}

(* ------------------- extract_query_entities, join ---------------------- *)
KeptTags == {"B-MISC", "I-MISC", "B-ORG", "I-ORG"}

RECURSIVE extract_query_entities(_)
extract_query_entities(entities) ==
    IF entities = <<>> THEN <<>>
    ELSE (IF Head(entities).entity \in KeptTags
            THEN <<Head(entities).word>> ELSE <<>>)
         \o extract_query_entities(Tail(entities))

RECURSIVE Join(_)
Join(ws) ==
    IF ws = <<>> THEN <<>>
    ELSE IF Len(ws) = 1 THEN ws[1]
    ELSE ws[1] \o <<" ">> \o Join(Tail(ws))

material_name_of(q) ==
    LET entities == extract_query_entities(q)
    IN IF entities # <<>> THEN PyStr(Join(entities)) ELSE PyNone

(* ------------------------------ GraphDB -------------------------------- *)
\* session.run("MATCH (m:Material {name: $name}) RETURN m.qualification"):
\* the records of the result, in node order, and the graph after the statement
RECURSIVE MatchRecords(_, _)
MatchRecords(graph, name) ==
    IF graph = <<>> THEN <<>>
    ELSE (IF Head(graph).name = name
            THEN <<<<Head(graph).qualification>>>> ELSE <<>>)
         \o MatchRecords(Tail(graph), name)

\* the same lookup written with MERGE: a node is created when none matches
session_run_merge(graph, name) ==
    IF MatchRecords(graph, name) # <<>>
      THEN [records |-> MatchRecords(graph, name), graph |-> graph]
      ELSE [records |-> <<<<PyNone>>>>,
            graph |-> Append(graph, [name |-> name, qualification |-> PyNone])]

session_run_match(graph, name) ==
    [records |-> MatchRecords(graph, name), graph |-> graph]

\* Result.single(): the first remaining record or None; exhausts the result
single(cursor) ==
    [record |-> IF cursor = <<>> THEN <<>> ELSE <<Head(cursor)>>,
     cursor |-> <<>>]

\* return result.single()[0] if result.single() else None
query_material(graph, name) ==
    LET res == session_run_match(graph, name)
        cond == single(res.records)
        sub == single(cond.cursor)
        ev0 == <<Event("query_material", name), Event("single", name)>>
    IN IF cond.record # <<>> /\ cond.record[1] # <<>>
         THEN [out |-> IF sub.record = <<>> THEN Raised("TypeError")
                       ELSE Returned(sub.record[1][1]),
               log |-> ev0 \o <<Event("single", name)>>,
               graph |-> res.graph]
         ELSE [out |-> Returned(PyNone), log |-> ev0, graph |-> res.graph]

(* ------------------------------- DuckDB -------------------------------- *)
SELECT_PREFIX == "SELECT * FROM table_0 WHERE col_0 = "

\* f"SELECT * FROM table_0 WHERE col_0 = '{material_name}'"
sql_query_of(material_name) ==
    <<SELECT_PREFIX, QUOTE>> \o Str(material_name) \o <<QUOTE>>

\* the SQL string literal that opens before position i of s: a doubled quote
\* is an escaped quote, a lone quote closes the literal
RECURSIVE LexLiteral(_, _, _)
LexLiteral(s, i, acc) ==
    IF i > Len(s) THEN [closed |-> FALSE, lit |-> acc, rest |-> <<>>]
    ELSE IF s[i] = QUOTE
      THEN IF i + 1 <= Len(s) /\ s[i + 1] = QUOTE
             THEN LexLiteral(s, i + 2, Append(acc, QUOTE))
             ELSE [closed |-> TRUE, lit |-> acc, rest |-> SubSeq(s, i + 1, Len(s))]
      ELSE LexLiteral(s, i + 1, Append(acc, s[i]))

\* db_con.execute(sql).fetchall() on the relations db: the statement parses
\* when the literal closes and only blanks follow it; table_0 must exist;
\* the rows of table_0 whose col_0 equals the literal, in table order
db_execute(db, sql) ==
    LET lex == LexLiteral(sql, 3, <<>>)
    IN IF ~(lex.closed /\ \A i \in 1..Len(lex.rest) : lex.rest[i] = " ")
         THEN [exc |-> "ParserException", rows |-> <<>>, db |-> db]
       ELSE IF db = <<>>
         THEN [exc |-> "CatalogException", rows |-> <<>>, db |-> db]
       ELSE [exc |-> "",
             rows |-> SelectSeq(db[1], LAMBDA row : row[1] = PyStr(lex.lit)),
             db |-> db]

(* ---------------------- query_system, steps 5.1-5.3 -------------------- *)
\* f"The qualification of {material_name} is {qualification}."
graph_sentence(material_name, qualification) ==
    <<"The qualification of ">> \o Str(material_name) \o <<" is ">>
        \o Str(qualification) \o <<".">>

\* the part both variants share: entity extraction, the GraphDB lookup and
\* the SQL lookup up to `result`; done when the run has already ended
lookup_steps(q, db, graph) ==
    LET material_name == material_name_of(q)
        ev1 == <<Event("extract_query_entities", PyNone)>>
        gq == IF Truthy(material_name)
                THEN query_material(graph, material_name)
                ELSE [out |-> Returned(PyNone), log |-> <<>>, graph |-> graph]
        sql == sql_query_of(material_name)
        ex == db_execute(db, sql)
        ev3 == <<Event("execute", PyStr(Str(material_name)))>>
    IN IF gq.out.kind = "raise"
         THEN [done |-> TRUE, out |-> gq.out, log |-> ev1 \o gq.log,
               result |-> <<>>, graph |-> gq.graph, db |-> db]
       ELSE IF Truthy(gq.out.value)
         THEN [done |-> TRUE,
               out |-> Returned(PyStr(graph_sentence(material_name, gq.out.value))),
               log |-> ev1 \o gq.log,
               result |-> <<>>, graph |-> gq.graph, db |-> db]
       ELSE IF ex.exc # ""
         THEN [done |-> TRUE, out |-> Raised(ex.exc), log |-> ev1 \o gq.log \o ev3,
               result |-> <<>>, graph |-> gq.graph, db |-> ex.db]
       ELSE [done |-> FALSE, out |-> Pending, log |-> ev1 \o gq.log \o ev3,
             result |-> ex.rows, graph |-> gq.graph, db |-> ex.db]

\* result[0][1]
first_row_col_1(result) ==
    IF Len(result[1]) < 2 THEN Raised("IndexError") ELSE Returned(result[1][2])

(* --------------------------- main.py ----------------------------------- *)
\* the return of main.py reading column 0 of the row instead of column 1
main_tail_col_0(result) ==
    IF result # <<>> THEN Returned(result[1][1])
    ELSE Returned(PyStr(<<"No data found.">>))

\* return result[0][1] if result else "No data found."
main_tail(result) ==
    IF result # <<>> THEN first_row_col_1(result)
    ELSE Returned(PyStr(<<"No data found.">>))

(* --------------------------- part_000 ---------------------------------- *)
RECURSIVE Flatten(_)
Flatten(ts) == IF ts = <<>> THEN <<>> ELSE Head(ts) \o Flatten(Tail(ts))

\* " ".join(map(str, row))
row_text(row) == Join([i \in 1..Len(row) |-> Str(row[i])])

\* [" ".join(map(str, row)) for table in tables for _, row in table.iterrows()]
table_texts_of(ts) ==
    LET rows == Flatten(ts) IN [i \in 1..Len(rows) |-> row_text(rows[i])]

\* an argmax that keeps the last index holding the maximum
RECURSIVE argmax_from_last(_, _, _)
argmax_from_last(sc, i, best) ==
    IF i > Len(sc) THEN best
    ELSE argmax_from_last(sc, i + 1, IF sc[i] >= sc[best] THEN i ELSE best)

\* similarity_scores.argmax().item(): the first index holding the maximum
RECURSIVE argmax_from(_, _, _)
argmax_from(sc, i, best) ==
    IF i > Len(sc) THEN best
    ELSE argmax_from(sc, i + 1, IF sc[i] > sc[best] THEN i ELSE best)

argmax(sc) == argmax_from(sc, 2, 1)

\* the similarity scores a query can have against the row texts: one score
\* per row, equal texts have equal embeddings and so equal scores
ScoreLists(texts) ==
    {sc \in [1..Len(texts) -> Scores] :
        \A i, j \in 1..Len(texts) : texts[i] = texts[j] => sc[i] = sc[j]}

\* steps 5.3 (tail) and 5.4
part_tail(result, ts, sc) ==
    LET table_texts == table_texts_of(ts)
    IN IF result # <<>> THEN [out |-> first_row_col_1(result), idx |-> 0]
       ELSE IF table_texts = <<>> THEN [out |-> Raised("RuntimeError"), idx |-> 0]
       ELSE [out |-> Returned(PyStr(<<"Closest match: ">> \o table_texts[argmax(sc)])),
             idx |-> argmax(sc)]

(* ------------------------------ actions -------------------------------- *)
Init ==
    /\ phase = "start"
    /\ tables = <<>>
    /\ facts = <<>>
    /\ query = <<>>
    /\ outM = Pending /\ logM = <<>>
    /\ outP = Pending /\ logP = <<>>
    /\ similarity_scores = <<>>
    /\ best_match_idx = 0

\* tables = extract_tables(pdf_path); db_con = store_in_duckdb(tables)
store_in_duckdb(doc) ==
    /\ phase = "start"
    /\ tables' = doc
    /\ phase' = "stored"
    /\ UNCHANGED <<facts, query, outM, logM, outP, logP, similarity_scores, best_match_idx>>

\* graph_db.add_material(name, qualification)
add_material(name, qualification) ==
    /\ phase = "stored"
    /\ Len(facts) < MaxFacts
    /\ facts' = Append(facts, [name |-> PyStr(name), qualification |-> PyStr(qualification)])
    /\ UNCHANGED <<phase, tables, query, outM, logM, outP, logP, similarity_scores, best_match_idx>>

\* query = "..." : the next question put to both variants
new_query(q) ==
    /\ phase \in {"stored", "ready"}
    /\ phase' = "query"
    /\ query' = q
    /\ outM' = Pending /\ logM' = <<>>
    /\ outP' = Pending /\ logP' = <<>>
    /\ similarity_scores' = <<>>
    /\ best_match_idx' = 0
    /\ UNCHANGED <<tables, facts>>

\* answer = query_system(query, db_con, graph_db) of main.py
query_system_main ==
    /\ phase = "query"
    /\ outM.kind = "pending"
    /\ LET pre == lookup_steps(query, tables, facts)
       IN /\ outM' = IF pre.done THEN pre.out ELSE main_tail(pre.result)
          /\ logM' = pre.log
          /\ tables' = pre.db
          /\ facts' = pre.graph
    /\ UNCHANGED <<phase, query, outP, logP, similarity_scores, best_match_idx>>

\* answer = query_system(query, db_con, graph_db, tables) of part_000
query_system_part ==
    /\ phase = "query"
    /\ outP.kind = "pending"
    /\ LET pre == lookup_steps(query, tables, facts)
       IN /\ tables' = pre.db
          /\ facts' = pre.graph
          /\ IF pre.done \/ pre.result # <<>>
               THEN /\ outP' = IF pre.done THEN pre.out
                               ELSE part_tail(pre.result, tables, <<>>).out
                    /\ logP' = pre.log
                    /\ UNCHANGED <<similarity_scores, best_match_idx>>
               ELSE \E sc \in ScoreLists(table_texts_of(tables)) :
                       LET t == part_tail(pre.result, tables, sc)
                       IN /\ outP' = t.out
                          /\ logP' = pre.log \o <<Event("semantic", PyNone)>>
                          /\ similarity_scores' = sc
                          /\ best_match_idx' = t.idx
    /\ UNCHANGED <<phase, query, outM, logM>>

\* print(answer): both variants have answered, the next question may come
print_answer ==
    /\ phase = "query"
    /\ outM.kind # "pending" /\ outP.kind # "pending"
    /\ phase' = "ready"
    /\ query' = <<>>
    /\ outM' = Pending /\ logM' = <<>>
    /\ outP' = Pending /\ logP' = <<>>
    /\ similarity_scores' = <<>>
    /\ best_match_idx' = 0
    /\ UNCHANGED <<tables, facts>>

Next ==
    \/ \E doc \in Documents : store_in_duckdb(doc)
    \/ \E n \in FactNames, v \in Qualifications : add_material(n, v)
    \/ \E q \in Queries : new_query(q)
    \/ query_system_main
    \/ query_system_part
    \/ print_answer

Spec == Init /\ [][Next]_vars

(* ------------------------- vocabulary of the claims --------------------- *)
\* the candidate name of the current query, PyNone when absent
candidate == material_name_of(query)

Variants == {"main", "part"}
out(v) == IF v = "main" THEN outM ELSE outP
log(v) == IF v = "main" THEN logM ELSE logP
Done(v) == phase = "query" /\ out(v).kind # "pending"

HasOp(l, op) == \E i \in 1..Len(l) : l[i].op = op
CountOp(l, op) == Cardinality({i \in 1..Len(l) : l[i].op = op})

\* the Fact Store holds a fact for the candidate name
FactIndexes == {i \in 1..Len(facts) : facts[i].name = candidate}
FactHit == candidate.t = "str" /\ FactIndexes # {}
FirstFact == facts[CHOOSE i \in FactIndexes : \A j \in FactIndexes : i <= j]

\* the rows of relation 0 whose column 0 equals the candidate name
MatchIndexes ==
    IF tables = <<>> \/ candidate.t # "str" THEN {}
    ELSE {i \in 1..Len(tables[1]) : tables[1][i][1] = candidate}
ExactHit == MatchIndexes # {}
FirstMatch == tables[1][CHOOSE i \in MatchIndexes : \A j \in MatchIndexes : i <= j]

AllRows == Flatten(tables)
IsSentence(s) == Len(s) >= 5 /\ s[1] = "The qualification of " /\ s[Len(s)] = "."
IsClosest(s) == Len(s) >= 2 /\ s[1] = "Closest match: "
IsNoData(s) == s = <<"No data found.">>

(* ------------------------------- C1 ------------------------------------ *)
\* C1: when the Fact Store holds a fact for the candidate name, query_system
\* returns "The qualification of <name> is <value>." with the stored value
\* and runs neither the SQL lookup nor the similarity fallback.
C1_FactHitAnswersSentence ==
    \A v \in Variants :
        (Done(v) /\ FactHit) =>
            /\ out(v) = Returned(PyStr(<<"The qualification of ">> \o candidate.s
                            \o <<" is ">> \o FirstFact.qualification.s \o <<".">>))
            /\ ~HasOp(log(v), "execute")
            /\ ~HasOp(log(v), "semantic")

(* ------------------------------- C2 ------------------------------------ *)
\* C2: when the candidate name has no fact but equals column 0 of a row of
\* relation 0 (a row that has a column 1), query_system returns column 1 of
\* the first such row.
C2_ExactMatchReturnsCol1 ==
    \A v \in Variants :
        (Done(v) /\ candidate.t = "str" /\ ~FactHit /\ ExactHit
                 /\ Len(FirstMatch) >= 2) =>
            /\ out(v).kind = "return"
            /\ out(v).value = FirstMatch[2]

(* ------------------------------- C3 ------------------------------------ *)
\* C3: when neither the Fact Store nor relation 0 matches and some relation
\* has a row, query_system returns a non-empty "Closest match" string built
\* from a row of maximal similarity.
C3_MissReturnsClosest ==
    \A v \in Variants :
        (Done(v) /\ ~FactHit /\ ~ExactHit /\ AllRows # <<>>) =>
            /\ out(v).kind = "return"
            /\ out(v).value.t = "str"
            /\ IsClosest(out(v).value.s)
            /\ \E i \in 1..Len(AllRows) :
                  Tail(out(v).value.s) = row_text(AllRows[i])

(* ------------------------------- C4 ------------------------------------ *)
\* C4: with zero relations and zero facts every query gets the "no data"
\* answer and no error is raised.
C4_EmptyStoresAnswerNoData ==
    \A v \in Variants :
        (Done(v) /\ tables = <<>> /\ facts = <<>>) =>
            out(v) = Returned(PyStr(<<"No data found.">>))

(* ------------------------------- C5 ------------------------------------ *)
\* C5: when the query has no candidate name, neither the Fact Store nor the
\* exact-match lookup is run, and query_system returns without an error.
C5_NoNameSkipsLookups ==
    \A v \in Variants :
        (Done(v) /\ candidate.t = "None") =>
            /\ ~HasOp(log(v), "query_material")
            /\ ~HasOp(log(v), "execute")
            /\ out(v).kind = "return"

(* ------------------------------- C6 ------------------------------------ *)
Rank(op) ==
    CASE op = "extract_query_entities" -> 1
      [] op = "query_material" -> 2
      [] op = "single" -> 3
      [] op = "execute" -> 4
      [] op = "semantic" -> 5

\* C6: the steps of a run happen in the order extraction, Fact Store lookup,
\* exact-match lookup, similarity fallback, each step and each read of the
\* store result at most once, and nothing runs after the step that succeeds.
C6_StepsOnceInOrder ==
    \A v \in Variants :
        Done(v) =>
            /\ \A i, j \in 1..Len(log(v)) :
                  i < j => Rank(log(v)[i].op) < Rank(log(v)[j].op)
            /\ FactHit => (~HasOp(log(v), "execute") /\ ~HasOp(log(v), "semantic"))
            /\ ExactHit => ~HasOp(log(v), "semantic")

(* ------------------------------- C7 ------------------------------------ *)
\* C7: every value query_system returns is a string: the graph sentence, an
\* attribute value of relation 0, a "Closest match" snippet or "No data found."
C7_AnswerIsOneOfFourForms ==
    \A v \in Variants :
        (Done(v) /\ out(v).kind = "return") =>
            /\ out(v).value.t = "str"
            /\ \/ IsSentence(out(v).value.s)
               \/ IsClosest(out(v).value.s)
               \/ IsNoData(out(v).value.s)
               \/ \E i \in 1..Len(tables[1]) :
                     /\ Len(tables[1][i]) >= 2
                     /\ out(v).value = tables[1][i][2]

C9_EarliestMaximalRow ==
    (Done("part") /\ HasOp(logP, "semantic")) =>
        /\ best_match_idx \in 1..Len(AllRows)
        /\ Len(similarity_scores) = Len(AllRows)
        /\ \A j \in 1..Len(AllRows) :
              similarity_scores[j] <= similarity_scores[best_match_idx]
        /\ \A j \in 1..(best_match_idx - 1) :
              similarity_scores[j] < similarity_scores[best_match_idx]
        /\ outP = Returned(PyStr(<<"Closest match: ">> \o row_text(AllRows[best_match_idx])))

\* two different rows tie at the maximal score and the fallback has chosen
C9_Witness ==
    /\ Done("part") /\ HasOp(logP, "semantic")
    /\ \E i, j \in 1..Len(AllRows) :
          /\ i < j
          /\ AllRows[i] # AllRows[j]
          /\ similarity_scores[i] = similarity_scores[j]
          /\ \A k \in 1..Len(AllRows) : similarity_scores[k] <= similarity_scores[i]

====
